---- MODULE Spec2Model ----
(***************************************************************************)
(* Video processing worker: the queue consumer (VideoProcessingConsumer)   *)
(* and the job orchestrator (handleVideoUploadEvent), with the ledger, the *)
(* workspace directory, the transcoding tasks and the event producer they  *)
(* drive.  One action per suspension point (await) of the source; what     *)
(* runs between two awaits is one atomic step, as on the Node.js event     *)
(* loop.                                                                   *)
(***************************************************************************)
EXTENDS Integers, Sequences, FiniteSets, TLC

VARIABLES
    resolutions,   \* ENV.PROCESSING_RESOLUTIONS, the configured list
    ledger,        \* the videos table: one row (or none) per video id
    exists,        \* which per-video workspace directories exist on the host
    staleMkdir,    \* mkdir calls of tasks whose run is over, still pending
    workers,       \* the worker processes that were launched
    consumer,      \* per worker: the VideoProcessingConsumer object
    dlv,           \* per worker: the message being processed and its settlement
    run,           \* per worker: the current handleVideoUploadEvent invocation
    delivered      \* number of messages the broker has delivered so far

vars == <<resolutions, ledger, exists, staleMkdir, workers, consumer, dlv, run,
          delivered>>

(***************************************************************************)
(* Bounds of the model.                                                    *)
(***************************************************************************)
MaxResolutions == 2
MaxDeliveries == 2

(***************************************************************************)
(* Values.                                                                 *)
(***************************************************************************)
Workers == {"w1", "w2"}
VideoIds == {"v1"}
ResolutionLabels == {"720p", "480p"}

NoRecord == "<no row>"
videoStatuses ==
    {"PENDING_UPLOAD", "UPLOAD_FAILED", "PROCESSING", "READY", "ERROR", "UPLOADED"}

\* JSON values of a payload field, as far as the code tells them apart.
Missing == "<undefined>"
NotAString == "<number>"
EmptyString == ""

IsString(x) == x \notin {Missing, NotAString}
Truthy(x) == x \notin {Missing, EmptyString}

S3_PROCESSED_PREFIX == "processed/"
S3_THUMBNAIL_PREFIX == "thumbnails/"
VIDEO_PROCESSING_COMPLETED_ROUTING_KEY == "video.processing.completed"
VIDEO_PROCESSING_FAILED_ROUTING_KEY == "video.processing.failed"

\* The template strings of the handler, kept as the sequence of their parts.
TranscodeS3Key(videoId, height) ==
    <<S3_PROCESSED_PREFIX, videoId, "/", videoId, "_", height, "p.mp4">>
ThumbnailS3Key(videoId) ==
    <<S3_THUMBNAIL_PREFIX, videoId, "/", videoId, "_thumbnail.jpg">>

\* An output mapping { label: key } is a set of <<label, key>> pairs holding at
\* most one pair per label; PutKey is the assignment m[label] = key.
PutKey(m, label, key) == {p \in m : p[1] # label} \cup {<<label, key>>}

(***************************************************************************)
(* Message bodies.  A body either does not parse as JSON or is an object   *)
(* with the four fields the handler destructures and the two further       *)
(* fields the consumer's VideoUploadPayload names.                         *)
(***************************************************************************)
Unparseable ==
    [json |-> FALSE, videoId |-> Missing, s3Key |-> Missing,
     originalname |-> Missing, mimetype |-> Missing,
     originalFilename |-> Missing, mimeType |-> Missing]

\* A body with the fields the handler destructures.
ValidBody(videoId) ==
    [json |-> TRUE, videoId |-> videoId, s3Key |-> "videos/src.mp4",
     originalname |-> "a b.mp4", mimetype |-> "video/mp4",
     originalFilename |-> Missing, mimeType |-> Missing]

\* A body with the fields of the consumer's interface VideoUploadPayload.
VideoUploadPayload(videoId) ==
    [json |-> TRUE, videoId |-> videoId, s3Key |-> "videos/src.mp4",
     originalname |-> Missing, mimetype |-> Missing,
     originalFilename |-> "a b.mp4", mimeType |-> "video/mp4"]

\* The unparseable body, the well-formed bodies, and the bodies that differ
\* from a well-formed one in one field; the last one is the shape of the
\* consumer's VideoUploadPayload (originalFilename and mimeType instead of
\* originalname and mimetype).
Bodies ==
    {Unparseable}
    \cup {ValidBody(v) : v \in VideoIds \cup {Missing, NotAString, EmptyString}}
    \cup {[ValidBody(v) EXCEPT !.s3Key = NotAString] : v \in VideoIds}
    \cup {[ValidBody(v) EXCEPT !.originalname = x] :
              v \in VideoIds, x \in {Missing, NotAString}}
    \cup {[ValidBody(v) EXCEPT !.mimetype = Missing] : v \in VideoIds}
    \cup {VideoUploadPayload(v) : v \in VideoIds}

\* Faulty variant of PayloadStructureOk: the s3Key test is forgotten.
PayloadStructureOkIdOnly(body) ==
    /\ body.json
    /\ IsString(body.videoId)

\* VideoProcessingConsumer.processMessage: JSON.parse and the structural check.
PayloadStructureOk(body) ==
    /\ body.json
    /\ IsString(body.videoId)
    /\ IsString(body.s3Key)

\* handleVideoUploadEvent: the required-field check on entry.
PayloadHasRequiredFields(body) ==
    /\ Truthy(body.videoId)
    /\ Truthy(body.s3Key)
    /\ Truthy(body.originalname)
    /\ Truthy(body.mimetype)

\* originalname.replace(...) is a TypeError on a value that is no string.
SanitizeThrows(body) == ~IsString(body.originalname)

(***************************************************************************)
(* Initial values of the per-worker records.                               *)
(***************************************************************************)
NoError == [stage |-> "none", task |-> 0]
Err(stage, task) == [stage |-> stage, task |-> task]

EmptyUpdate ==
    [status |-> "unset", metadata |-> "unset", hasFiles |-> FALSE,
     processedFiles |-> {}, hasProcessedAt |-> FALSE]

IdleRun ==
    [pc |-> "idle", videoId |-> "", s3Key |-> "",
     isSuccess |-> FALSE, processingError |-> NoError,
     dbUpdateData |-> EmptyUpdate, processedFilesResult |-> {},
     derive |-> <<>>, upload |-> <<>>, returning |-> "none", ret |-> "none",
     gate |-> "none", writes |-> <<>>, events |-> <<>>,
     nDownload |-> 0, nDerive |-> 0, nUpload |-> 0, nMkdir |-> 0, nRm |-> 0,
     created |-> FALSE, rmOk |-> FALSE, failed |-> {}, stored |-> {}]

\* A consumer object; `again` is the position and result of a further call
\* of start() on the same object.
NewConsumer ==
    [startPc |-> 0, isRunning |-> FALSE, channel |-> FALSE, callbacks |-> 0,
     setup |-> <<>>, startResult |-> "none",
     again |-> [startPc |-> 0, startResult |-> "none"]]

NoDelivery ==
    [tag |-> 0, body |-> Unparseable, state |-> "none",
     invoked |-> 0, verdict |-> "none", acks |-> 0, nacks |-> 0, requeues |-> 0]

RECURSIVE SeqsUpTo(_, _)
SeqsUpTo(S, n) ==
    IF n = 0 THEN {<<>>}
    ELSE SeqsUpTo(S, n - 1)
         \cup {Append(s, x) : s \in {t \in SeqsUpTo(S, n - 1) : Len(t) = n - 1},
                              x \in S}

Init ==
    /\ resolutions \in SeqsUpTo(ResolutionLabels, MaxResolutions)
    /\ ledger \in [VideoIds -> [status : videoStatuses \cup {NoRecord},
                                processedFiles : {{}}, metadata : {"unset"}]]
    /\ exists = [v \in VideoIds |-> FALSE]
    /\ staleMkdir = [v \in VideoIds |-> 0]
    /\ workers = {"w1"}
    /\ consumer = [w \in Workers |-> NewConsumer]
    /\ dlv = [w \in Workers |-> NoDelivery]
    /\ run = [w \in Workers |-> IdleRun]
    /\ delivered = 0

(***************************************************************************)
(* VideoProcessingConsumer.start(): the broker topology is asserted step   *)
(* by step, then the callback is registered.                               *)
(***************************************************************************)
\* A channel call: the operation, the entity it names, the entity or type it
\* refers to (exchange type, exchange bound to, dead-letter exchange), and
\* the routing key or count it passes.
ChannelCall(op, name, peer, key) ==
    [op |-> op, name |-> name, peer |-> peer, key |-> key]

\* Faulty variant of StartSteps: the main queue is set up without any
\* dead-letter exchange or queue.
StartStepsNoDeadLetter ==
    <<ChannelCall("assertExchange", "exchangeName", "topic", ""),
      ChannelCall("assertQueue", "queueName", "", ""),
      ChannelCall("bindQueue", "queueName", "exchangeName", "bindingKey"),
      ChannelCall("prefetch", "", "", "1")>>

\* The awaited channel calls of start(), in program order.
StartSteps ==
    <<ChannelCall("assertExchange", "VIDEO_PROCESSING_DLX", "direct", ""),
      ChannelCall("assertQueue", "VIDEO_PROCESSING_DLQ", "", ""),
      ChannelCall("bindQueue", "VIDEO_PROCESSING_DLQ", "VIDEO_PROCESSING_DLX",
                  "bindingKey"),
      ChannelCall("assertQueue", "queueName", "VIDEO_PROCESSING_DLX",
                  "bindingKey"),
      ChannelCall("assertExchange", "exchangeName", "topic", ""),
      ChannelCall("bindQueue", "queueName", "exchangeName", "bindingKey"),
      ChannelCall("prefetch", "", "", "1")>>

\* The catch block of start(): not running, the error is rethrown.
StartFailed(c) ==
    [c EXCEPT !.isRunning = FALSE, !.startPc = 0, !.startResult = "threw"]

\* The process calls start() once (startService); the channel handle is the
\* one getRabbitMQChannel() returns, null when the connection is gone.
StartCall(w) ==
    /\ w \in workers
    /\ consumer[w].startPc = 0
    /\ consumer[w].startResult = "none"
    /\ ~consumer[w].isRunning
    /\ \E available \in BOOLEAN :
         consumer' = [consumer EXCEPT ![w] =
            IF available
            THEN [@ EXCEPT !.channel = TRUE, !.startPc = 1]
            ELSE StartFailed([@ EXCEPT !.channel = FALSE])]
    /\ UNCHANGED <<resolutions, ledger, exists, staleMkdir, workers, dlv, run,
                   delivered>>

\* One awaited channel call of start() returns or fails; after prefetch the
\* consumer is marked running and the callback is registered.
StartStep(w) ==
    /\ w \in workers
    /\ consumer[w].startPc \in 1..Len(StartSteps)
    /\ \E ok \in BOOLEAN :
         consumer' = [consumer EXCEPT ![w] =
            IF ~ok THEN StartFailed(@)
            ELSE IF @.startPc < Len(StartSteps)
            THEN [@ EXCEPT !.setup = Append(@, StartSteps[consumer[w].startPc]),
                           !.startPc = @ + 1]
            ELSE [@ EXCEPT !.setup = Append(@, StartSteps[consumer[w].startPc]),
                           !.startPc = 0, !.isRunning = TRUE,
                           !.callbacks = @ + 1, !.startResult = "started"]]
    /\ UNCHANGED <<resolutions, ledger, exists, staleMkdir, workers, dlv, run,
                   delivered>>

\* A caller calls start() on the object once more.  The guard of start() is
\* the isRunning flag alone, which an earlier call sets only after its last
\* awaited channel call.
StartAgainCall(w) ==
    /\ w \in workers
    /\ consumer[w].again.startPc = 0
    /\ consumer[w].again.startResult = "none"
    /\ \E available \in BOOLEAN :
         consumer' = [consumer EXCEPT ![w] =
            IF @.isRunning
            THEN [@ EXCEPT !.again.startResult = "already_running"]
            ELSE IF available
            THEN [@ EXCEPT !.channel = TRUE, !.again.startPc = 1]
            ELSE [@ EXCEPT !.channel = FALSE, !.isRunning = FALSE,
                           !.again.startResult = "threw"]]
    /\ UNCHANGED <<resolutions, ledger, exists, staleMkdir, workers, dlv, run,
                   delivered>>

\* One awaited channel call of that further start() returns or fails.
StartAgainStep(w) ==
    /\ w \in workers
    /\ consumer[w].again.startPc \in 1..Len(StartSteps)
    /\ \E ok \in BOOLEAN :
         consumer' = [consumer EXCEPT ![w] =
            IF ~ok
            THEN [@ EXCEPT !.isRunning = FALSE, !.again.startPc = 0,
                           !.again.startResult = "threw"]
            ELSE IF @.again.startPc < Len(StartSteps)
            THEN [@ EXCEPT !.again.startPc = @ + 1]
            ELSE [@ EXCEPT !.again.startPc = 0, !.isRunning = TRUE,
                           !.callbacks = @ + 1,
                           !.again.startResult = "started"]]
    /\ UNCHANGED <<resolutions, ledger, exists, staleMkdir, workers, dlv, run,
                   delivered>>

(***************************************************************************)
(* VideoProcessingConsumer.processMessage: settlement of a delivery.       *)
(***************************************************************************)
Ack(d) == [d EXCEPT !.acks = @ + 1, !.state = "settled"]
Nack(d, requeue) ==
    [d EXCEPT !.nacks = @ + 1, !.state = "settled",
              !.requeues = @ + (IF requeue THEN 1 ELSE 0)]

\* Faulty variant of RejectOnError: the error is logged and the message is
\* left unsettled.
RejectOnErrorLogsOnly(c, d) == d

\* The catch block of processMessage: nack(msg, false, false) if a channel
\* is held.
RejectOnError(c, d) == IF c.channel THEN Nack(d, FALSE) ELSE d

\* Faulty variant of SettleOnVerdict: a failed job is put back on the queue.
SettleWithRequeue(c, d, success) ==
    IF ~c.channel THEN d
    ELSE IF success THEN Ack(d)
    ELSE Nack(d, TRUE)

\* Faulty variant of SettleOnVerdict: a false verdict is only logged.
SettleOnSuccessOnly(c, d, success) ==
    IF ~c.channel THEN d
    ELSE IF success THEN Ack(d)
    ELSE d

\* After the awaited handler call: ack on true, nack without requeue on false.
SettleOnVerdict(c, d, success) ==
    IF ~c.channel THEN d
    ELSE IF success THEN Ack(d)
    ELSE Nack(d, FALSE)

\* What processMessage does once the handler's promise has settled.
AfterHandler(c, d, ret) ==
    IF ret = "throw"
    THEN RejectOnError(c, [d EXCEPT !.verdict = ret])
    ELSE SettleOnVerdict(c, [d EXCEPT !.verdict = ret], ret = "true")

\* Number of tasks of a run's derivation group whose mkdir is still pending.
PendingMkdirs(r) == Cardinality({i \in DOMAIN r.derive : r.derive[i].state = "mkdir"})

\* A run that is over leaves its pending task mkdirs behind.
LeaveBehind(r) ==
    IF r.videoId \in VideoIds
    THEN [staleMkdir EXCEPT ![r.videoId] = @ + PendingMkdirs(r)]
    ELSE staleMkdir

\* Faulty variant of AwaitHandler: the handler's promise is not awaited; the
\* promise object being truthy, the message is acked at once.
AwaitHandlerNotAwaited(c, d) == SettleOnVerdict(c, d, TRUE)

\* const success = await handleVideoUploadEvent(...): while the handler's
\* promise is pending, processMessage is suspended and settles nothing.
AwaitHandler(c, d) == d

\* The broker delivers a message to the registered callback.  With prefetch 1
\* it does so only when the previous delivery is settled.  processMessage runs
\* up to its first suspension: parse, structural check, and the synchronous
\* head of handleVideoUploadEvent (required-field check, filename sanitizing,
\* issue of the ledger read).
Deliver(w, body) ==
    /\ w \in workers
    /\ consumer[w].callbacks > 0
    /\ dlv[w].state # "processing"
    /\ delivered < MaxDeliveries
    /\ delivered' = delivered + 1
    /\ staleMkdir' = LeaveBehind(run[w])
    /\ LET c == consumer[w]
           d == [NoDelivery EXCEPT !.tag = delivered + 1, !.body = body,
                                   !.state = "processing"]
           called == [d EXCEPT !.invoked = 1]
       IN  IF ~c.channel
           THEN /\ dlv' = [dlv EXCEPT ![w] = [d EXCEPT !.state = "dropped"]]
                /\ run' = [run EXCEPT ![w] = IdleRun]
           ELSE IF ~PayloadStructureOk(body)
           THEN /\ dlv' = [dlv EXCEPT ![w] = RejectOnError(c, d)]
                /\ run' = [run EXCEPT ![w] = IdleRun]
           ELSE IF ~PayloadHasRequiredFields(body)
           THEN /\ dlv' = [dlv EXCEPT ![w] = AfterHandler(c, called, "false")]
                /\ run' = [run EXCEPT ![w] =
                              [IdleRun EXCEPT !.pc = "done", !.ret = "false",
                                              !.videoId = body.videoId,
                                              !.s3Key = body.s3Key]]
           ELSE IF SanitizeThrows(body)
           THEN /\ dlv' = [dlv EXCEPT ![w] = AfterHandler(c, called, "throw")]
                /\ run' = [run EXCEPT ![w] =
                              [IdleRun EXCEPT !.pc = "done", !.ret = "throw",
                                              !.videoId = body.videoId,
                                              !.s3Key = body.s3Key]]
           ELSE /\ dlv' = [dlv EXCEPT ![w] = AwaitHandler(c, called)]
                /\ run' = [run EXCEPT ![w] =
                              [IdleRun EXCEPT !.pc = "gate",
                                              !.videoId = body.videoId,
                                              !.s3Key = body.s3Key]]
    /\ UNCHANGED <<resolutions, ledger, exists, workers, consumer>>

(***************************************************************************)
(* Collaborators of the handler.                                           *)
(***************************************************************************)
\* db.update(videos).set(data).where(eq(videos.id, videoId)): an UPDATE that
\* matches no row changes nothing; columns absent from data keep their value.
UpdateRow(row, data) ==
    IF row.status = NoRecord THEN row
    ELSE [status |-> data.status,
          processedFiles |->
              IF data.hasFiles THEN data.processedFiles ELSE row.processedFiles,
          metadata |->
              IF data.metadata # "unset" THEN data.metadata ELSE row.metadata]

\* VideoEventProducer.publishVideoEvent: false without a channel or when
\* publishing raises, otherwise what channel.publish returned.
PublishOutcomes == {"no_channel", "raised", "buffered", "not_accepted"}
\* Faulty variant of publishVideoEvent: an error raised while publishing is
\* reported as a successful publish.
publishVideoEventHidesError(outcome) ==
    CASE outcome = "no_channel" -> FALSE
      [] outcome = "raised" -> TRUE
      [] outcome = "buffered" -> TRUE
      [] outcome = "not_accepted" -> FALSE

publishVideoEvent(outcome) ==
    CASE outcome = "no_channel" -> FALSE
      [] outcome = "raised" -> FALSE
      [] outcome = "buffered" -> TRUE
      [] outcome = "not_accepted" -> FALSE

(***************************************************************************)
(* handleVideoUploadEvent.                                                 *)
(***************************************************************************)
\* Faulty variant of GateSkips: a record in ERROR is processed again.
GateSkipsWithoutError(status) == status \in {"PROCESSING", "READY"}

\* The idempotency gate: statuses for which the delivery is a duplicate.
GateSkips(status) == status \in {"PROCESSING", "READY", "ERROR"}

\* Faulty variant of Catch: the status to write is not forced to ERROR.
CatchKeepStatus(r, err) ==
    [r EXCEPT !.processingError = err,
              !.dbUpdateData = [@ EXCEPT !.hasFiles = TRUE,
                                         !.processedFiles = r.processedFilesResult],
              !.isSuccess = FALSE]

\* The catch block of the handler.
Catch(r, err) ==
    [r EXCEPT !.processingError = err,
              !.dbUpdateData = [@ EXCEPT !.status = "ERROR", !.hasFiles = TRUE,
                                         !.processedFiles = r.processedFilesResult],
              !.isSuccess = FALSE]

\* Faulty variant of FinalWriteDue: the final write is not guarded.
FinalWriteAlways(r) == TRUE

\* finally: the guard of the final ledger write.
FinalWriteDue(r) == r.dbUpdateData.status # "unset"

\* Faulty variant of EventDue: a failure event is published whenever the run
\* did not succeed, whether or not an error was caught.
EventDueWheneverNotSuccess(r) ==
    IF r.isSuccess /\ r.dbUpdateData.status = "READY" THEN "completed"
    ELSE "failed"

\* Faulty variant of EventDue: only the completion event is ever published.
EventDueCompletionOnly(r) ==
    IF r.isSuccess /\ r.dbUpdateData.status = "READY" THEN "completed"
    ELSE "none"

\* finally: which event is published once the final write has returned.
EventDue(r) ==
    IF r.isSuccess /\ r.dbUpdateData.status = "READY" THEN "completed"
    ELSE IF r.processingError # NoError THEN "failed"
    ELSE "none"

\* finally: rm(jobTempDir, {recursive, force}) is issued.
IssueRm(r) == [r EXCEPT !.pc = "cleanup", !.nRm = @ + 1]

AfterFinalWrite(r) ==
    IF EventDue(r) # "none" THEN [r EXCEPT !.pc = "publish"] ELSE IssueRm(r)

\* Entry of the finally block, up to its first await.
Finally(r) ==
    IF FinalWriteDue(r) THEN [r EXCEPT !.pc = "final_write"]
    ELSE AfterFinalWrite(r)

Fails(r, what) == [r EXCEPT !.failed = @ \cup {what}]

\* The failure event: error.message is the caught error's own message, to
\* which the handler prepends nothing (prefix "").
FailureEvent(r, message, accepted) ==
    [routingKey |-> VIDEO_PROCESSING_FAILED_ROUTING_KEY,
     videoId |-> r.videoId, status |-> "ERROR", prefix |-> "",
     message |-> message, originalS3Key |-> r.s3Key, accepted |-> accepted]

CompletionEvent(r, accepted) ==
    [routingKey |-> VIDEO_PROCESSING_COMPLETED_ROUTING_KEY,
     videoId |-> r.videoId, status |-> "READY",
     outputs |-> IF r.dbUpdateData.hasFiles THEN r.dbUpdateData.processedFiles
                 ELSE {},
     metadata |-> IF r.dbUpdateData.metadata = "probed" THEN "probed" ELSE "{}",
     accepted |-> accepted]

\* Faulty variant of GateRead: reading a fresh record claims it, setting
\* PROCESSING in the same step.
GateReadClaims(w) ==
    /\ run[w].pc = "gate"
    /\ \E ok \in BOOLEAN :
         LET r == run[w]
             row == ledger[r.videoId]
             fresh == ok /\ row.status # NoRecord /\ ~GateSkips(row.status)
         IN  /\ ledger' = IF fresh
                          THEN [ledger EXCEPT ![r.videoId].status = "PROCESSING"]
                          ELSE ledger
             /\ run' = [run EXCEPT ![w] =
                   IF ~ok
                   THEN Finally(Catch(Fails([r EXCEPT !.gate = "read_failed"],
                                            "ledger_read"),
                                      Err("ledger_read", 0)))
                   ELSE IF row.status = NoRecord
                   THEN [r EXCEPT !.gate = NoRecord, !.pc = "notfound_publish"]
                   ELSE IF GateSkips(row.status)
                   THEN Finally([r EXCEPT !.gate = row.status,
                                          !.returning = "true"])
                   ELSE [r EXCEPT !.gate = row.status, !.pc = "mkdir",
                                  !.nMkdir = @ + 1]]
    /\ UNCHANGED <<resolutions, exists, staleMkdir, workers, consumer,
                   dlv, delivered>>

\* The ledger read of the gate returns: error, no row, a duplicate, or a
\* fresh record for which the workspace mkdir is issued.
GateRead(w) ==
    /\ run[w].pc = "gate"
    /\ \E ok \in BOOLEAN :
         LET r == run[w]
             row == ledger[r.videoId]
         IN  run' = [run EXCEPT ![w] =
                IF ~ok
                THEN Finally(Catch(Fails([r EXCEPT !.gate = "read_failed"],
                                         "ledger_read"),
                                   Err("ledger_read", 0)))
                ELSE IF row.status = NoRecord
                THEN [r EXCEPT !.gate = NoRecord, !.pc = "notfound_publish"]
                ELSE IF GateSkips(row.status)
                THEN Finally([r EXCEPT !.gate = row.status, !.returning = "true"])
                ELSE [r EXCEPT !.gate = row.status, !.pc = "mkdir",
                               !.nMkdir = @ + 1]]
    /\ UNCHANGED <<resolutions, ledger, exists, staleMkdir, workers, consumer,
                   dlv, delivered>>

\* Missing record: the failure event is published, then `return false` runs
\* the finally block.
NotFoundPublish(w) ==
    /\ run[w].pc = "notfound_publish"
    /\ \E outcome \in PublishOutcomes :
         LET r == run[w]
             ev == FailureEvent(r, Err("record_not_found", 0),
                                publishVideoEvent(outcome))
         IN  run' = [run EXCEPT ![w] =
                Finally([r EXCEPT !.events = Append(@, ev),
                                  !.returning = "false",
                                  !.failed = IF outcome = "buffered" THEN @
                                             ELSE @ \cup {"publish"}])]
    /\ UNCHANGED <<resolutions, ledger, exists, staleMkdir, workers, consumer,
                   dlv, delivered>>

\* mkdir(jobTempDir, {recursive: true}) returns; the PROCESSING write is issued.
Mkdir(w) ==
    /\ run[w].pc = "mkdir"
    /\ \E ok \in BOOLEAN :
         LET r == run[w] IN
         /\ exists' = IF ok THEN [exists EXCEPT ![r.videoId] = TRUE] ELSE exists
         /\ run' = [run EXCEPT ![w] =
                IF ok THEN [r EXCEPT !.created = TRUE, !.pc = "set_processing"]
                ELSE Finally(Catch(Fails(r, "mkdir"), Err("mkdir", 0)))]
    /\ UNCHANGED <<resolutions, ledger, staleMkdir, workers, consumer, dlv,
                   delivered>>

\* The ledger write setting PROCESSING returns; the download is issued.
SetProcessing(w) ==
    /\ run[w].pc = "set_processing"
    /\ \E ok \in BOOLEAN :
         LET r == run[w]
             data == [EmptyUpdate EXCEPT !.status = "PROCESSING"]
             logged == [r EXCEPT !.writes =
                           Append(@, [status |-> "PROCESSING", ok |-> ok,
                                      processedFiles |-> {}])]
         IN  /\ ledger' = IF ok
                          THEN [ledger EXCEPT ![r.videoId] = UpdateRow(@, data)]
                          ELSE ledger
             /\ run' = [run EXCEPT ![w] =
                   IF ok
                   THEN [logged EXCEPT !.dbUpdateData.status = "PROCESSING",
                                       !.pc = "download", !.nDownload = @ + 1]
                   ELSE Finally(Catch(Fails(logged, "set_processing"),
                                      Err("set_processing", 0)))]
    /\ UNCHANGED <<resolutions, exists, staleMkdir, workers, consumer, dlv,
                   delivered>>

\* downloadFromS3 returns; the metadata probe is issued.
Download(w) ==
    /\ run[w].pc = "download"
    /\ \E ok \in BOOLEAN :
         LET r == run[w] IN
         run' = [run EXCEPT ![w] =
            IF ok THEN [r EXCEPT !.pc = "probe"]
            ELSE Finally(Catch(Fails(r, "download"), Err("download", 0)))]
    /\ UNCHANGED <<resolutions, ledger, exists, staleMkdir, workers, consumer,
                   dlv, delivered>>

\* Faulty variant of DerivationTasks: no thumbnail task.
DerivationTasksNoThumbnail(videoId) ==
    [i \in 1..Len(resolutions) |->
        [state |-> "mkdir", kind |-> "transcode", resolution |-> resolutions[i],
         s3Key |-> TranscodeS3Key(videoId, resolutions[i])]]

\* The derivation group: one transcodeToResolution call per configured
\* resolution, then generateThumbnail; each call starts with its own mkdir of
\* the workspace.
DerivationTasks(videoId) ==
    [i \in 1..(Len(resolutions) + 1) |->
        IF i <= Len(resolutions)
        THEN [state |-> "mkdir", kind |-> "transcode",
              resolution |-> resolutions[i],
              s3Key |-> TranscodeS3Key(videoId, resolutions[i])]
        ELSE [state |-> "mkdir", kind |-> "thumbnail", resolution |-> "",
              s3Key |-> ThumbnailS3Key(videoId)]]

\* Faulty variant of Probe: a failure of getVideoMetadata reaches the
\* handler's catch block.
ProbeFailureIsFatal(w) ==
    /\ run[w].pc = "probe"
    /\ \E ok \in BOOLEAN :
         LET r == run[w]
             tasks == DerivationTasks(r.videoId)
         IN  run' = [run EXCEPT ![w] =
                IF ok
                THEN [r EXCEPT !.dbUpdateData.metadata = "probed",
                               !.derive = tasks,
                               !.nDerive = @ + Len(tasks),
                               !.pc = "derive"]
                ELSE Finally(Catch(Fails(r, "probe"), Err("probe", 0)))]
    /\ UNCHANGED <<resolutions, ledger, exists, staleMkdir, workers, consumer,
                   dlv, delivered>>

\* getVideoMetadata returns (its failure is swallowed: metadata null); the
\* derivation tasks are launched and awaited with Promise.all.
Probe(w) ==
    /\ run[w].pc = "probe"
    /\ \E ok \in BOOLEAN :
         LET r == run[w]
             probed == IF ok THEN [r EXCEPT !.dbUpdateData.metadata = "probed"]
                       ELSE Fails([r EXCEPT !.dbUpdateData.metadata = "null"],
                                  "probe")
             tasks == DerivationTasks(r.videoId)
         IN  run' = [run EXCEPT ![w] =
                [probed EXCEPT !.derive = tasks,
                               !.nDerive = @ + Len(tasks),
                               !.pc = "derive"]]
    /\ UNCHANGED <<resolutions, ledger, exists, staleMkdir, workers, consumer,
                   dlv, delivered>>

\* processedFilesResult: the thumbnail key, then one entry per transcode
\* result, keyed by the result's resolution.
RECURSIVE PutResults(_, _, _)
PutResults(m, results, i) ==
    IF i > Len(results) THEN m
    ELSE PutResults(IF results[i].kind = "transcode"
                    THEN PutKey(m, results[i].resolution, results[i].s3Key)
                    ELSE m,
                    results, i + 1)

\* Faulty variant of ProcessedFilesOf: every entry records the key of the
\* first result.
ProcessedFilesFirstKey(results) ==
    {<<IF results[i].kind = "thumbnail" THEN "thumbnail"
       ELSE results[i].resolution, results[1].s3Key>> : i \in DOMAIN results}

ProcessedFilesOf(results) ==
    PutResults({<<"thumbnail", results[i].s3Key>> :
                    i \in {j \in DOMAIN results : results[j].kind = "thumbnail"}},
               results, 1)

\* Promise.all of the derivation group resolved: the output mapping is
\* prepared and one uploadToS3 call per result is launched.
StartUploads(r) ==
    LET files == ProcessedFilesOf(r.derive)
    IN  [r EXCEPT !.processedFilesResult = files,
                  !.dbUpdateData = [@ EXCEPT !.processedFiles = files,
                                             !.hasFiles = TRUE],
                  !.upload = [i \in DOMAIN r.derive |->
                                 [state |-> "run", kind |-> r.derive[i].kind,
                                  s3Key |-> r.derive[i].s3Key]],
                  !.nUpload = @ + Len(r.derive),
                  !.pc = "upload"]

\* Promise.all rejects with the first rejection, while the handler awaits it.
\* Faulty variant of DeriveRejected: a later rejection replaces the error the
\* handler caught.
DeriveRejectedKeepsLast(r, i) ==
    IF r.pc = "derive"
    THEN Finally(Catch(Fails(r, "derive"), Err("derive", i)))
    ELSE [Fails(r, "derive") EXCEPT !.processingError = Err("derive", i)]

DeriveRejected(r, i) ==
    IF r.pc = "derive"
    THEN Finally(Catch(Fails(r, "derive"), Err("derive", i)))
    ELSE Fails(r, "derive")

\* Faulty variant of DeriveResolved: the uploads are started as soon as one
\* derivation task has resolved.
DeriveResolvedOnFirst(r) ==
    IF r.pc = "derive" /\ \E j \in DOMAIN r.derive : r.derive[j].state = "ok"
    THEN StartUploads(r)
    ELSE r

\* Promise.all of the derivation group resolves once every task has.
DeriveResolved(r) ==
    IF r.pc = "derive" /\ \A j \in DOMAIN r.derive : r.derive[j].state = "ok"
    THEN StartUploads(r)
    ELSE r

\* The mkdir at the head of a derivation task returns; ffmpeg is started.
DeriveMkdir(w, i) ==
    /\ i \in DOMAIN run[w].derive
    /\ run[w].derive[i].state = "mkdir"
    /\ \E ok \in BOOLEAN :
         LET r == run[w] IN
         /\ exists' = IF ok THEN [exists EXCEPT ![r.videoId] = TRUE] ELSE exists
         /\ run' = [run EXCEPT ![w] =
                IF ok THEN [r EXCEPT !.derive[i].state = "run"]
                ELSE DeriveRejected([r EXCEPT !.derive[i].state = "failed"], i)]
    /\ UNCHANGED <<resolutions, ledger, staleMkdir, workers, consumer, dlv,
                   delivered>>

\* ffmpeg of a derivation task ends or errors.
DeriveEnd(w, i) ==
    /\ i \in DOMAIN run[w].derive
    /\ run[w].derive[i].state = "run"
    /\ \E ok \in BOOLEAN :
         LET r == run[w] IN
         run' = [run EXCEPT ![w] =
            IF ok THEN DeriveResolved([r EXCEPT !.derive[i].state = "ok"])
            ELSE DeriveRejected([r EXCEPT !.derive[i].state = "failed"], i)]
    /\ UNCHANGED <<resolutions, ledger, exists, staleMkdir, workers, consumer,
                   dlv, delivered>>

\* Faulty variant of FinishSuccess: the status to write stays PROCESSING.
FinishSuccessKeepStatus(r) ==
    Finally([r EXCEPT !.dbUpdateData = [@ EXCEPT !.hasProcessedAt = TRUE],
                      !.isSuccess = TRUE])

\* All uploads resolved: READY is decided and the finally block is entered.
FinishSuccess(r) ==
    Finally([r EXCEPT !.dbUpdateData = [@ EXCEPT !.status = "READY",
                                                 !.hasProcessedAt = TRUE],
                      !.isSuccess = TRUE])

\* Faulty variant of UploadRejected: the objects already stored by the run
\* are retracted when an upload fails.
UploadRejectedRetracts(r, i) ==
    IF r.pc = "upload"
    THEN Finally(Catch(Fails([r EXCEPT !.stored = {}], "upload"),
                       Err("upload", i)))
    ELSE Fails([r EXCEPT !.stored = {}], "upload")

\* Promise.all of the upload group rejects with the first rejection, while
\* the handler awaits it.
UploadRejected(r, i) ==
    IF r.pc = "upload"
    THEN Finally(Catch(Fails(r, "upload"), Err("upload", i)))
    ELSE Fails(r, "upload")

\* Promise.all of the upload group resolves once every uploadToS3 promise
\* has resolved; the resolved values are not looked at.
UploadResolved(r) ==
    IF /\ r.pc = "upload"
       /\ \A j \in DOMAIN r.upload : r.upload[j].state \in {"ok", "skipped"}
    THEN FinishSuccess(r)
    ELSE r

\* uploadToS3: the promise resolves with the ETag once the object is stored,
\* resolves with undefined without storing anything when the local file has
\* zero bytes, and rejects when stat or the put fails.
UploadOutcomes == {"stored", "skipped", "failed"}

\* An uploadToS3 call returns.
UploadEnd(w, i) ==
    /\ i \in DOMAIN run[w].upload
    /\ run[w].upload[i].state = "run"
    /\ \E outcome \in UploadOutcomes :
         LET r == run[w] IN
         run' = [run EXCEPT ![w] =
            CASE outcome = "stored" ->
                    UploadResolved([r EXCEPT !.upload[i].state = "ok",
                                             !.stored = @ \cup
                                                 {r.upload[i].s3Key}])
              [] outcome = "skipped" ->
                    UploadResolved(Fails([r EXCEPT !.upload[i].state = "skipped"],
                                         "upload_skipped"))
              [] outcome = "failed" ->
                    UploadRejected([r EXCEPT !.upload[i].state = "failed"], i)]
    /\ UNCHANGED <<resolutions, ledger, exists, staleMkdir, workers, consumer,
                   dlv, delivered>>

\* Faulty variant of FinalWrite: a failed write does not skip the publish.
FinalWriteThenPublishAnyway(w) ==
    /\ run[w].pc = "final_write"
    /\ \E ok \in BOOLEAN :
         LET r == run[w]
             logged == [r EXCEPT !.writes =
                           Append(@, [status |-> r.dbUpdateData.status, ok |-> ok,
                                      processedFiles |->
                                          IF r.dbUpdateData.hasFiles
                                          THEN r.dbUpdateData.processedFiles
                                          ELSE {}])]
         IN  /\ ledger' = IF ok
                          THEN [ledger EXCEPT ![r.videoId] =
                                   UpdateRow(@, r.dbUpdateData)]
                          ELSE ledger
             /\ run' = [run EXCEPT ![w] =
                   IF ok THEN AfterFinalWrite(logged)
                   ELSE AfterFinalWrite(Fails(logged, "final_write"))]
    /\ UNCHANGED <<resolutions, exists, staleMkdir, workers, consumer, dlv,
                   delivered>>

\* finally: the final ledger write returns.  A failure skips the publish
\* (inner catch) and goes on to the cleanup.
FinalWrite(w) ==
    /\ run[w].pc = "final_write"
    /\ \E ok \in BOOLEAN :
         LET r == run[w]
             logged == [r EXCEPT !.writes =
                           Append(@, [status |-> r.dbUpdateData.status, ok |-> ok,
                                      processedFiles |->
                                          IF r.dbUpdateData.hasFiles
                                          THEN r.dbUpdateData.processedFiles
                                          ELSE {}])]
         IN  /\ ledger' = IF ok
                          THEN [ledger EXCEPT ![r.videoId] =
                                   UpdateRow(@, r.dbUpdateData)]
                          ELSE ledger
             /\ run' = [run EXCEPT ![w] =
                   IF ok THEN AfterFinalWrite(logged)
                   ELSE IssueRm(Fails(logged, "final_write"))]
    /\ UNCHANGED <<resolutions, exists, staleMkdir, workers, consumer, dlv,
                   delivered>>

\* finally: publishVideoEvent returns; rm is issued.
Publish(w) ==
    /\ run[w].pc = "publish"
    /\ \E outcome \in PublishOutcomes :
         LET r == run[w]
             accepted == publishVideoEvent(outcome)
             ev == IF EventDue(r) = "completed" THEN CompletionEvent(r, accepted)
                   ELSE FailureEvent(r, r.processingError, accepted)
         IN  run' = [run EXCEPT ![w] =
                IssueRm([r EXCEPT !.events = Append(@, ev),
                                  !.failed = IF outcome = "buffered" THEN @
                                             ELSE @ \cup {"publish"}])]
    /\ UNCHANGED <<resolutions, ledger, exists, staleMkdir, workers, consumer,
                   dlv, delivered>>

\* Faulty variant of ReturnValue: an event that was not accepted turns the
\* verdict to false.
ReturnValueNeedsAcceptedEvent(r) ==
    IF r.returning # "none" THEN r.returning
    ELSE IF r.isSuccess /\ \A i \in DOMAIN r.events : r.events[i].accepted
    THEN "true"
    ELSE "false"

\* Faulty variant of ReturnValue: a failed final write turns the verdict to
\* false.
ReturnValueFalseOnWriteFailure(r) ==
    IF r.returning # "none" THEN r.returning
    ELSE IF r.isSuccess /\ "final_write" \notin r.failed THEN "true"
    ELSE "false"

\* What the handler's promise resolves to.
ReturnValue(r) ==
    IF r.returning # "none" THEN r.returning
    ELSE IF r.isSuccess THEN "true" ELSE "false"

\* finally: rm returns (its error is swallowed); the handler returns and
\* processMessage settles the delivery.
Cleanup(w) ==
    /\ run[w].pc = "cleanup"
    /\ \E ok \in BOOLEAN :
         LET r == run[w]
             ret == ReturnValue(r)
         IN  /\ exists' = IF ok THEN [exists EXCEPT ![r.videoId] = FALSE]
                          ELSE exists
             /\ run' = [run EXCEPT ![w] =
                   [(IF ok THEN r ELSE Fails(r, "rm"))
                       EXCEPT !.rmOk = ok, !.ret = ret, !.pc = "done"]]
             /\ dlv' = [dlv EXCEPT ![w] = AfterHandler(consumer[w], @, ret)]
    /\ UNCHANGED <<resolutions, ledger, staleMkdir, workers, consumer, delivered>>

\* The mkdir of a task left behind by an earlier run returns.
StaleMkdir(v) ==
    /\ staleMkdir[v] > 0
    /\ staleMkdir' = [staleMkdir EXCEPT ![v] = @ - 1]
    /\ \E ok \in BOOLEAN :
         exists' = IF ok THEN [exists EXCEPT ![v] = TRUE] ELSE exists
    /\ UNCHANGED <<resolutions, ledger, workers, consumer, dlv, run, delivered>>

Next ==
    \/ \E w \in Workers : StartCall(w)
    \/ \E w \in Workers : StartStep(w)
    \/ \E w \in Workers, body \in Bodies : Deliver(w, body)
    \/ \E w \in Workers : GateRead(w)
    \/ \E w \in Workers : NotFoundPublish(w)
    \/ \E w \in Workers : Mkdir(w)
    \/ \E w \in Workers : SetProcessing(w)
    \/ \E w \in Workers : Download(w)
    \/ \E w \in Workers : Probe(w)
    \/ \E w \in Workers, i \in 1..(MaxResolutions + 1) : DeriveMkdir(w, i)
    \/ \E w \in Workers, i \in 1..(MaxResolutions + 1) : DeriveEnd(w, i)
    \/ \E w \in Workers, i \in 1..(MaxResolutions + 1) : UploadEnd(w, i)
    \/ \E w \in Workers : FinalWrite(w)
    \/ \E w \in Workers : Publish(w)
    \/ \E w \in Workers : Cleanup(w)
    \/ \E v \in VideoIds : StaleMkdir(v)

Spec == Init /\ [][Next]_vars

(***************************************************************************)
(* Two worker processes on one ledger and one host.  Both consumers have   *)
(* completed start(); the record exists in a pre-processing status, the    *)
(* broker delivers well-formed messages for it, and thumbnails only are    *)
(* configured, so a run has no sibling task to leave behind.               *)
(***************************************************************************)
StartedConsumer ==
    [NewConsumer EXCEPT !.isRunning = TRUE, !.channel = TRUE, !.callbacks = 1,
                        !.setup = StartSteps, !.startResult = "started"]

InitTwoWorkers ==
    /\ resolutions = <<>>
    /\ ledger \in [VideoIds -> [status : {"PENDING_UPLOAD", "UPLOADED"},
                                processedFiles : {{}}, metadata : {"unset"}]]
    /\ exists = [v \in VideoIds |-> FALSE]
    /\ staleMkdir = [v \in VideoIds |-> 0]
    /\ workers = Workers
    /\ consumer = [w \in Workers |-> StartedConsumer]
    /\ dlv = [w \in Workers |-> NoDelivery]
    /\ run = [w \in Workers |-> IdleRun]
    /\ delivered = 0

NextTwoWorkers ==
    \/ \E w \in Workers, v \in VideoIds : Deliver(w, ValidBody(v))
    \/ \E w \in Workers : GateRead(w)
    \/ \E w \in Workers : Mkdir(w)
    \/ \E w \in Workers : SetProcessing(w)
    \/ \E w \in Workers : Download(w)
    \/ \E w \in Workers : Probe(w)
    \/ \E w \in Workers, i \in 1..(MaxResolutions + 1) : DeriveMkdir(w, i)
    \/ \E w \in Workers, i \in 1..(MaxResolutions + 1) : DeriveEnd(w, i)
    \/ \E w \in Workers, i \in 1..(MaxResolutions + 1) : UploadEnd(w, i)
    \/ \E w \in Workers : FinalWrite(w)
    \/ \E w \in Workers : Publish(w)
    \/ \E w \in Workers : Cleanup(w)

SpecTwoWorkers == InitTwoWorkers /\ [][NextTwoWorkers]_vars

(***************************************************************************)
(* The consumer class under a caller that calls start() twice on each of   *)
(* two consumer objects, the calls overlapping in any way.                 *)
(***************************************************************************)
InitStartCalls ==
    /\ resolutions = <<>>
    /\ ledger \in [VideoIds -> [status : {"UPLOADED"}, processedFiles : {{}},
                                metadata : {"unset"}]]
    /\ exists = [v \in VideoIds |-> FALSE]
    /\ staleMkdir = [v \in VideoIds |-> 0]
    /\ workers = Workers
    /\ consumer = [w \in Workers |-> NewConsumer]
    /\ dlv = [w \in Workers |-> NoDelivery]
    /\ run = [w \in Workers |-> IdleRun]
    /\ delivered = 0

NextStartCalls ==
    \/ \E w \in Workers : StartCall(w)
    \/ \E w \in Workers : StartStep(w)
    \/ \E w \in Workers : StartAgainCall(w)
    \/ \E w \in Workers : StartAgainStep(w)

SpecStartCalls == InitStartCalls /\ [][NextStartCalls]_vars

(***************************************************************************)
(* The service when every collaborator call that has been issued           *)
(* eventually returns or fails: each step that is the return of a pending  *)
(* call is taken if it stays enabled.  Nothing is assumed about the        *)
(* broker delivering further messages or about start() being called.       *)
(***************************************************************************)
CallsReturn ==
    \A w \in Workers :
        /\ WF_vars(StartStep(w))
        /\ WF_vars(GateRead(w))
        /\ WF_vars(NotFoundPublish(w))
        /\ WF_vars(Mkdir(w))
        /\ WF_vars(SetProcessing(w))
        /\ WF_vars(Download(w))
        /\ WF_vars(Probe(w))
        /\ WF_vars(\E i \in 1..(MaxResolutions + 1) : DeriveMkdir(w, i))
        /\ WF_vars(\E i \in 1..(MaxResolutions + 1) : DeriveEnd(w, i))
        /\ WF_vars(\E i \in 1..(MaxResolutions + 1) : UploadEnd(w, i))
        /\ WF_vars(FinalWrite(w))
        /\ WF_vars(Publish(w))
        /\ WF_vars(Cleanup(w))

SpecCallsReturn == Init /\ [][Next]_vars /\ CallsReturn

(***************************************************************************)
(* Properties.  A run is the invocation recorded in run[w]; it is over     *)
(* when pc = "done".                                                       *)
(***************************************************************************)
Over(r) == r.pc = "done"
Fresh(r) == r.gate \in {"PENDING_UPLOAD", "UPLOADED"}
AllSucceeded(r) == r.failed = {}
WriteStatuses(r) == [i \in DOMAIN r.writes |-> r.writes[i].status]
WritesOk(r) == \A i \in DOMAIN r.writes : r.writes[i].ok
Range(f) == {f[i] : i \in DOMAIN f}
WritesSetting(r, statuses) ==
    {i \in DOMAIN r.writes : r.writes[i].status \in statuses}
InFlight(group) ==
    {i \in DOMAIN group : group[i].state \notin {"ok", "skipped", "failed"}}
PastFanOut(r) == r.pc \in {"final_write", "publish", "cleanup", "done"}
FailedTasks(group) == {i \in DOMAIN group : group[i].state = "failed"}

\* C1: when the ledger read of the gate returns PROCESSING, READY or ERROR,
\* the handler makes no ledger write, no download, no upload, no derivation
\* call, publishes no event, and returns true.
C1_DuplicateIsSkipped ==
    \A w \in Workers :
        run[w].gate \in {"PROCESSING", "READY", "ERROR"} =>
            /\ run[w].writes = <<>>
            /\ run[w].nDownload = 0
            /\ run[w].nUpload = 0
            /\ run[w].nDerive = 0
            /\ run[w].events = <<>>
            /\ run[w].pc \in {"cleanup", "done"}
            /\ Over(run[w]) => run[w].ret = "true"

C1_Witness ==
    \E w \in Workers :
        /\ Over(run[w])
        /\ run[w].gate = "ERROR"
        /\ run[w].ret = "true"

\* C2: once the ledger status of a video id is READY or ERROR, no step of a
\* later invocation changes it (single worker, any collaborator failures).
C2_TerminalStatusIsFinal ==
    [][\A v \in VideoIds :
          ledger[v].status \in {"READY", "ERROR"} =>
              ledger'[v].status = ledger[v].status]_vars

\* C3: for a delivery that passed the structural check, a handler verdict of
\* true is followed by exactly one ack and no nack, a verdict of false by
\* exactly one nack without requeue and no ack; no delivery is both acked and
\* nacked, and none is requeued.
C3_VerdictDecidesSettlement ==
    \A w \in Workers :
        /\ (Over(run[w]) /\ run[w].ret = "true") =>
               (dlv[w].acks = 1 /\ dlv[w].nacks = 0)
        /\ (Over(run[w]) /\ run[w].ret = "false") =>
               (dlv[w].nacks = 1 /\ dlv[w].acks = 0)
        /\ ~(dlv[w].acks > 0 /\ dlv[w].nacks > 0)
        /\ dlv[w].acks + dlv[w].nacks <= 1
        /\ dlv[w].requeues = 0

C3_Witness ==
    \E w \in Workers :
        /\ Over(run[w])
        /\ Fresh(run[w])
        /\ run[w].ret = "true"
        /\ dlv[w].acks = 1

\* C4: when the video id has no record in the ledger, the handler makes no
\* ledger write, no download, no upload and no derivation call, publishes
\* exactly one event, a failure event, and returns false.
C4_MissingRecordFails ==
    \A w \in Workers :
        run[w].gate = NoRecord =>
            /\ run[w].writes = <<>>
            /\ run[w].nDownload = 0
            /\ run[w].nUpload = 0
            /\ run[w].nDerive = 0
            /\ Len(run[w].events) <= 1
            /\ Over(run[w]) =>
                 /\ run[w].ret = "false"
                 /\ Len(run[w].events) = 1
                 /\ run[w].events[1].routingKey =
                        VIDEO_PROCESSING_FAILED_ROUTING_KEY

C4_Witness ==
    \E w \in Workers :
        /\ Over(run[w])
        /\ run[w].gate = NoRecord
        /\ Len(run[w].events) = 1

\* C5: a delivery whose body is not parseable JSON, or whose videoId or s3Key
\* is not a string, is nacked once without requeue, is never acked, and the
\* handler is not invoked for it.
C5_MalformedIsRejected ==
    \A w \in Workers :
        (/\ dlv[w].state # "none"
         /\ \/ ~dlv[w].body.json
            \/ ~IsString(dlv[w].body.videoId)
            \/ ~IsString(dlv[w].body.s3Key)) =>
            /\ dlv[w].nacks = 1
            /\ dlv[w].acks = 0
            /\ dlv[w].requeues = 0
            /\ dlv[w].invoked = 0
            /\ run[w].pc = "idle"

C5_Witness ==
    \E w \in Workers :
        /\ dlv[w].state = "settled"
        /\ dlv[w].body.json
        /\ ~IsString(dlv[w].body.s3Key)
        /\ dlv[w].nacks = 1

\* C6: a run on a fresh record (PENDING_UPLOAD or UPLOADED) in which every
\* collaborator call succeeds makes exactly two ledger writes, PROCESSING
\* then READY, and returns true.
C6_SuccessWritesProcessingThenReady ==
    \A w \in Workers :
        (Over(run[w]) /\ Fresh(run[w]) /\ AllSucceeded(run[w])) =>
            /\ WriteStatuses(run[w]) = <<"PROCESSING", "READY">>
            /\ WritesOk(run[w])
            /\ run[w].ret = "true"

C6_Witness ==
    \E w \in Workers :
        /\ Over(run[w])
        /\ run[w].gate = "UPLOADED"
        /\ AllSucceeded(run[w])
        /\ Len(run[w].writes) = 2

\* C7: a run on a fresh record with N configured resolutions in which every
\* collaborator call succeeds makes exactly one download, N+1 uploads and
\* N+1 derivation calls.
C7_SuccessCallCounts ==
    \A w \in Workers :
        (Over(run[w]) /\ Fresh(run[w]) /\ AllSucceeded(run[w])) =>
            /\ run[w].nDownload = 1
            /\ run[w].nUpload = Len(resolutions) + 1
            /\ run[w].nDerive = Len(resolutions) + 1

C7_Witness ==
    \E w \in Workers :
        /\ Over(run[w])
        /\ Fresh(run[w])
        /\ AllSucceeded(run[w])
        /\ Len(resolutions) = MaxResolutions
        /\ run[w].nUpload = MaxResolutions + 1

\* C8: a run on a fresh record with N configured resolutions in
\* which every collaborator call succeeds publishes exactly one event, a
\* completion event, whose output mapping has N+1 entries and equals the
\* mapping written to the ledger together with READY.
C8_CompletionEventHasNPlusOneKeys ==
    \A w \in Workers :
        (Over(run[w]) /\ Fresh(run[w]) /\ AllSucceeded(run[w])) =>
            /\ Len(run[w].events) = 1
            /\ run[w].events[1].routingKey =
                   VIDEO_PROCESSING_COMPLETED_ROUTING_KEY
            /\ Cardinality(run[w].events[1].outputs) = Len(resolutions) + 1
            /\ Len(run[w].writes) = 2
            /\ run[w].writes[2].status = "READY"
            /\ run[w].events[1].outputs = run[w].writes[2].processedFiles

\* What the code does guarantee for such a run: the mapping has one entry per
\* distinct configured resolution plus the thumbnail, which is N+1 entries
\* only when the N configured resolutions are pairwise distinct, and it equals
\* the mapping written to the ledger together with READY.
CompletionEventMatchesLedger ==
    \A w \in Workers :
        (Over(run[w]) /\ Fresh(run[w]) /\ AllSucceeded(run[w])) =>
            /\ Len(run[w].events) = 1
            /\ run[w].events[1].routingKey =
                   VIDEO_PROCESSING_COMPLETED_ROUTING_KEY
            /\ {p[1] : p \in run[w].events[1].outputs} =
                   Range(resolutions) \cup {"thumbnail"}
            /\ Cardinality(run[w].events[1].outputs) =
                   Cardinality(Range(resolutions)) + 1
            /\ Len(run[w].writes) = 2
            /\ run[w].writes[2].status = "READY"
            /\ run[w].events[1].outputs = run[w].writes[2].processedFiles

\* C9: on every exit path on which the handler created the workspace
\* directory, rm of that directory is issued exactly once before the handler
\* returns, and once the handler has returned the directory does not exist
\* (when rm itself succeeded).
C9_WorkspaceGoneAfterReturn ==
    \A w \in Workers :
        (Over(run[w]) /\ run[w].created) =>
            /\ run[w].nRm = 1
            /\ run[w].rmOk => ~exists[run[w].videoId]

\* C10: if the download fails (and every other collaborator call of the run
\* succeeds), the handler makes no derivation call and no upload, its ledger
\* writes are exactly PROCESSING then ERROR, it publishes exactly one event,
\* a failure event carrying the original source key, the workspace is
\* removed, and it returns false.
C10_DownloadFailure ==
    \A w \in Workers :
        (/\ Over(run[w])
         /\ "download" \in run[w].failed
         /\ run[w].failed \subseteq {"download", "publish"}) =>
            /\ run[w].nDerive = 0
            /\ run[w].nUpload = 0
            /\ WriteStatuses(run[w]) = <<"PROCESSING", "ERROR">>
            /\ WritesOk(run[w])
            /\ Len(run[w].events) = 1
            /\ run[w].events[1].routingKey = VIDEO_PROCESSING_FAILED_ROUTING_KEY
            /\ run[w].events[1].originalS3Key = dlv[w].body.s3Key
            /\ run[w].events[1].message = Err("download", 0)
            /\ run[w].nRm = 1
            /\ run[w].rmOk
            /\ ~exists[run[w].videoId]
            /\ run[w].ret = "false"

C10_Witness ==
    \E w \in Workers :
        /\ Over(run[w])
        /\ run[w].failed = {"download"}
        /\ Len(run[w].events) = 1
        /\ run[w].ret = "false"

\* C11: if exactly one derivation task fails (and no ledger, storage or
\* filesystem call of the run fails), no upload is made, the ledger ends at
\* ERROR, the handler returns false, and the one event published is a failure
\* event carrying the error of the failed task.
C11_OneDerivationFails ==
    \A w \in Workers :
        (/\ Over(run[w])
         /\ Cardinality(FailedTasks(run[w].derive)) = 1
         /\ run[w].failed \subseteq {"derive", "probe", "publish"}) =>
            /\ run[w].nUpload = 0
            /\ run[w].stored = {}
            /\ ledger[run[w].videoId].status = "ERROR"
            /\ run[w].ret = "false"
            /\ Len(run[w].events) = 1
            /\ run[w].events[1].routingKey = VIDEO_PROCESSING_FAILED_ROUTING_KEY
            /\ \E i \in FailedTasks(run[w].derive) :
                   run[w].events[1].message = Err("derive", i)

C11_Witness ==
    \E w \in Workers :
        /\ Over(run[w])
        /\ run[w].failed = {"derive"}
        /\ Cardinality(FailedTasks(run[w].derive)) = 1
        /\ \E i \in DOMAIN run[w].derive : run[w].derive[i].state = "ok"
        /\ Len(run[w].events) = 1
        /\ ledger[run[w].videoId].status = "ERROR"

\* C12: if exactly one upload fails (and no other ledger, storage, engine or
\* filesystem call of the run fails), all N+1 uploads were launched, every
\* object an upload has stored is still stored, the ledger writes are exactly
\* PROCESSING then ERROR, the one event published is a failure event carrying
\* the error of the failed upload, and the handler returns false.
C12_OneUploadFails ==
    \A w \in Workers :
        (/\ Over(run[w])
         /\ Cardinality(FailedTasks(run[w].upload)) = 1
         /\ run[w].failed \subseteq {"upload", "probe", "publish"}) =>
            /\ run[w].nUpload = Len(resolutions) + 1
            /\ Len(run[w].upload) = Len(resolutions) + 1
            /\ \A i \in DOMAIN run[w].upload :
                   run[w].upload[i].state = "ok" =>
                       run[w].upload[i].s3Key \in run[w].stored
            /\ WriteStatuses(run[w]) = <<"PROCESSING", "ERROR">>
            /\ WritesOk(run[w])
            /\ Len(run[w].events) = 1
            /\ run[w].events[1].routingKey = VIDEO_PROCESSING_FAILED_ROUTING_KEY
            /\ \E i \in FailedTasks(run[w].upload) :
                   run[w].events[1].message = Err("upload", i)
            /\ run[w].ret = "false"

C12_Witness ==
    \E w \in Workers :
        /\ Over(run[w])
        /\ run[w].failed = {"upload"}
        /\ Cardinality(FailedTasks(run[w].upload)) = 1
        /\ \E i \in DOMAIN run[w].upload :
               /\ run[w].upload[i].state = "ok"
               /\ run[w].upload[i].s3Key \in run[w].stored
        /\ Len(run[w].events) = 1

\* C13: if the download, every derivation and every upload succeed but the
\* final ledger write setting READY fails, the handler returns true (the
\* consumer acks), publishes no event, and removes the workspace.
C13_ReadyWriteFails ==
    \A w \in Workers :
        (/\ Over(run[w])
         /\ "final_write" \in run[w].failed
         /\ run[w].failed \subseteq {"final_write", "probe"}
         /\ run[w].writes[Len(run[w].writes)].status = "READY") =>
            /\ ~run[w].writes[Len(run[w].writes)].ok
            /\ run[w].ret = "true"
            /\ dlv[w].acks = 1
            /\ dlv[w].nacks = 0
            /\ run[w].events = <<>>
            /\ run[w].nRm = 1
            /\ run[w].rmOk
            /\ ~exists[run[w].videoId]

C13_Witness ==
    \E w \in Workers :
        /\ Over(run[w])
        /\ run[w].failed = {"final_write"}
        /\ Len(run[w].writes) = 2
        /\ run[w].writes[2].status = "READY"
        /\ ledger[run[w].videoId].status = "PROCESSING"
        /\ run[w].ret = "true"

\* C14: if the ledger write setting PROCESSING fails, the handler returns
\* false, makes no download, no derivation call and no upload, and publishes
\* exactly one failure event, which carries the original source key and whose
\* message is marked as an early failure.
C14_ProcessingWriteFailsEarly ==
    \A w \in Workers :
        (/\ Over(run[w])
         /\ "set_processing" \in run[w].failed
         /\ run[w].failed \subseteq {"set_processing", "publish"}) =>
            /\ run[w].ret = "false"
            /\ run[w].nDownload = 0
            /\ run[w].nDerive = 0
            /\ run[w].nUpload = 0
            /\ Len(run[w].events) = 1
            /\ run[w].events[1].routingKey = VIDEO_PROCESSING_FAILED_ROUTING_KEY
            /\ run[w].events[1].originalS3Key = dlv[w].body.s3Key
            /\ run[w].events[1].prefix = "Early failure: "

\* C15: if the ledger write setting PROCESSING fails, it is the only ledger
\* write the handler attempts in that invocation.
C15_ProcessingWriteFailsOnlyWrite ==
    \A w \in Workers :
        (Over(run[w]) /\ "set_processing" \in run[w].failed) =>
            /\ Len(run[w].writes) = 1
            /\ run[w].writes[1].status = "PROCESSING"

\* C16: after a failure of the download, of a derivation or of an upload,
\* the handler returns false and publishes exactly one failure event carrying
\* the error and the original source key, whether the ledger write setting
\* ERROR succeeds or fails.
C16_FailureEventDespiteWriteFailure ==
    \A w \in Workers :
        (/\ Over(run[w])
         /\ run[w].processingError.stage \in {"download", "derive", "upload"}) =>
            /\ run[w].ret = "false"
            /\ Len(run[w].events) = 1
            /\ run[w].events[1].routingKey = VIDEO_PROCESSING_FAILED_ROUTING_KEY
            /\ run[w].events[1].message = run[w].processingError
            /\ run[w].events[1].originalS3Key = dlv[w].body.s3Key

\* C17: the verdict and the ledger writes of a run do not depend on the
\* outcome of the event publish (accepted, not accepted, raised): the step in
\* which the publish returns changes neither the ledger, nor the writes made,
\* nor the verdict already decided, and the handler then returns that verdict
\* without a further write; a run in which everything but the publish
\* succeeded returns true with the ledger at READY.
C17_PublishOutcomeIsIgnored ==
    [][\A w \in Workers :
        /\ (run[w].pc \in {"publish", "notfound_publish"}
                /\ run'[w].pc # run[w].pc) =>
              /\ run'[w].pc = "cleanup"
              /\ Len(run'[w].events) = Len(run[w].events) + 1
              /\ ledger' = ledger
              /\ run'[w].writes = run[w].writes
              /\ ReturnValue(run'[w]) = ReturnValue(run[w])
        /\ (run[w].pc = "cleanup" /\ run'[w].pc # run[w].pc) =>
              /\ run'[w].pc = "done"
              /\ ledger' = ledger
              /\ run'[w].writes = run[w].writes
              /\ run'[w].ret = ReturnValue(run[w])
        /\ (/\ Over(run'[w])
            /\ Fresh(run'[w])
            /\ "publish" \in run'[w].failed
            /\ run'[w].failed \subseteq {"publish", "probe"}) =>
              /\ run'[w].ret = "true"
              /\ WriteStatuses(run'[w]) = <<"PROCESSING", "READY">>
              /\ ledger'[run'[w].videoId].status = "READY"
              /\ Len(run'[w].events) = 1
              /\ ~run'[w].events[1].accepted
    ]_vars

C17_Witness ==
    \E w \in Workers :
        /\ Over(run[w])
        /\ Fresh(run[w])
        /\ run[w].failed = {"publish"}
        /\ Len(run[w].events) = 1
        /\ ~run[w].events[1].accepted
        /\ run[w].ret = "true"
        /\ ledger[run[w].videoId].status = "READY"

\* C18: in every invocation, whatever fails, there is at most one ledger
\* write setting PROCESSING, at most one ledger write setting READY or ERROR,
\* and at most one published event.
C18_AtMostOneOfEach ==
    \A w \in Workers :
        /\ Cardinality(WritesSetting(run[w], {"PROCESSING"})) <= 1
        /\ Cardinality(WritesSetting(run[w], {"READY", "ERROR"})) <= 1
        /\ Len(run[w].writes) <= 2
        /\ Len(run[w].events) <= 1

C18_Witness ==
    \E w \in Workers :
        /\ Over(run[w])
        /\ {"probe", "upload", "publish", "rm"} \subseteq run[w].failed
        /\ Cardinality(WritesSetting(run[w], {"PROCESSING"})) = 1
        /\ Cardinality(WritesSetting(run[w], {"READY", "ERROR"})) = 1
        /\ Len(run[w].events) = 1

\* C19: the handler makes its terminal ledger write, publishes, removes the
\* workspace and returns only after every derivation task it launched has
\* completed or failed: no derivation task of the run is in flight once the
\* handler is past the derivation fan-out.
C19_DerivationGroupSettlesFirst ==
    \A w \in Workers : PastFanOut(run[w]) => InFlight(run[w].derive) = {}

\* C20: the handler makes its terminal ledger write, publishes, removes the
\* workspace and returns only after every upload it launched has completed
\* or failed.
C20_UploadGroupSettlesFirst ==
    \A w \in Workers : PastFanOut(run[w]) => InFlight(run[w].upload) = {}

\* C21: every change of a record's status made by the handler is one of
\* PENDING_UPLOAD -> PROCESSING, UPLOADED -> PROCESSING, PROCESSING -> READY,
\* PROCESSING -> ERROR, and READY or ERROR is written only to a record that
\* the writing run has itself successfully set to PROCESSING.
StatusChanges ==
    {<<"PENDING_UPLOAD", "PROCESSING">>, <<"UPLOADED", "PROCESSING">>,
     <<"PROCESSING", "READY">>, <<"PROCESSING", "ERROR">>}

C21_OnlySpecifiedTransitions ==
    [][\A v \in VideoIds :
        /\ ledger'[v].status # ledger[v].status =>
              <<ledger[v].status, ledger'[v].status>> \in StatusChanges
        /\ \A w \in Workers :
              (/\ run[w].videoId = v
               /\ Len(run'[w].writes) = Len(run[w].writes) + 1
               /\ run'[w].writes[Len(run'[w].writes)].status
                      \in {"READY", "ERROR"}) =>
                 /\ run[w].writes # <<>>
                 /\ run[w].writes[1].status = "PROCESSING"
                 /\ run[w].writes[1].ok
    ]_vars

\* C22: with two workers handling deliveries of the same video id at the
\* same time, under every interleaving of their ledger reads and writes, the
\* status of that id does not change once it is READY or ERROR.
C22_TerminalIsFinalTwoWorkers ==
    [][\A v \in VideoIds :
        ledger[v].status \in {"READY", "ERROR"} =>
            ledger'[v].status = ledger[v].status
    ]_vars

\* C23: if the handler call throws (its promise rejects), the consumer
\* settles the message as for a false verdict: it nacks it exactly once with
\* requeue=false and does not ack it.
C23_ThrowIsSettledAsFalse ==
    \A w \in Workers :
        dlv[w].verdict \in {"throw", "false"} =>
            /\ dlv[w].invoked = 1
            /\ dlv[w].state = "settled"
            /\ dlv[w].nacks = 1
            /\ dlv[w].acks = 0
            /\ dlv[w].requeues = 0

C23_Witness ==
    \E w \in Workers :
        /\ dlv[w].verdict = "throw"
        /\ run[w].ret = "throw"
        /\ dlv[w].nacks = 1
        /\ dlv[w].acks = 0

\* C24: start() registers its callback only after it has, in this order,
\* asserted the dead-letter exchange, asserted the dead-letter queue and
\* bound it to that exchange on the binding key, declared the main queue with
\* that exchange and key as dead-letter target, bound the main queue to the
\* topic exchange on the same key, and set prefetch to 1; if a step fails, no
\* callback is registered, the consumer is not running and start() throws.
C24_CallbackAfterTopology ==
    \A w \in Workers :
        LET c == consumer[w] IN
        /\ c.callbacks > 0 =>
              /\ c.isRunning
              /\ c.startResult = "started"
              /\ Len(c.setup) = 7
              /\ c.setup[1] = ChannelCall("assertExchange",
                                          "VIDEO_PROCESSING_DLX", "direct", "")
              /\ c.setup[2] = ChannelCall("assertQueue",
                                          "VIDEO_PROCESSING_DLQ", "", "")
              /\ c.setup[3] = ChannelCall("bindQueue", "VIDEO_PROCESSING_DLQ",
                                          "VIDEO_PROCESSING_DLX", "bindingKey")
              /\ c.setup[4] = ChannelCall("assertQueue", "queueName",
                                          "VIDEO_PROCESSING_DLX", "bindingKey")
              /\ c.setup[6] = ChannelCall("bindQueue", "queueName",
                                          c.setup[5].name, "bindingKey")
              /\ c.setup[5].op = "assertExchange"
              /\ c.setup[5].peer = "topic"
              /\ c.setup[7] = ChannelCall("prefetch", "", "", "1")
        /\ c.startResult = "threw" =>
              /\ c.callbacks = 0
              /\ ~c.isRunning
        /\ c.startPc > 0 => c.callbacks = 0
        /\ dlv[w].state # "none" => c.callbacks > 0

C24_Witness ==
    \E w \in Workers :
        /\ consumer[w].callbacks = 1
        /\ Len(consumer[w].setup) = 7
        /\ dlv[w].state = "settled"

C24_FailedStartWitness ==
    \E w \in Workers :
        /\ consumer[w].startResult = "threw"
        /\ Len(consumer[w].setup) = 6
        /\ consumer[w].callbacks = 0

\* C25: with a broker that keeps at most one unsettled message outstanding
\* per consumer, at most one handler invocation is in progress per consumer:
\* a message is acked or nacked only once the handler's promise for it has
\* settled, so a delivery never arrives while an invocation is running.
C25_OneInvocationPerConsumer ==
    \A w \in Workers :
        /\ run[w].pc \notin {"idle", "done"} =>
              /\ dlv[w].state = "processing"
              /\ dlv[w].invoked = 1
              /\ dlv[w].acks = 0
              /\ dlv[w].nacks = 0
        /\ dlv[w].state = "settled" =>
              /\ run[w].pc \in {"idle", "done"}
              /\ dlv[w].acks + dlv[w].nacks = 1
        /\ dlv[w].invoked <= 1

C25_Witness ==
    \E w \in Workers :
        /\ dlv[w].tag = 2
        /\ dlv[w].state = "processing"
        /\ run[w].pc = "upload"

\* C26: the destination key of a variant (a configured resolution or the
\* thumbnail) depends on the video id and the variant only, and that one key
\* is the key handed to the derivation call, the key of the upload, the value
\* recorded for the variant in the ledger's output mapping, and the value
\* carried for it in the completion event.
VariantOf(task) ==
    IF task.kind = "thumbnail" THEN "thumbnail" ELSE task.resolution

DestinationKey(v, variant) ==
    IF variant = "thumbnail"
    THEN <<"thumbnails/", v, "/", v, "_thumbnail.jpg">>
    ELSE <<"processed/", v, "/", v, "_", variant, "p.mp4">>

C26_OneKeyPerVariant ==
    \A w \in Workers :
        LET r == run[w] IN
        /\ \A i \in DOMAIN r.derive :
               r.derive[i].s3Key = DestinationKey(r.videoId, VariantOf(r.derive[i]))
        /\ \A i \in DOMAIN r.upload :
               /\ r.upload[i].s3Key = r.derive[i].s3Key
               /\ r.upload[i].state = "ok" => r.derive[i].s3Key \in r.stored
        /\ r.stored \subseteq {r.derive[i].s3Key : i \in DOMAIN r.derive}
        /\ (Over(r) /\ Fresh(r) /\ AllSucceeded(r)) =>
               /\ Len(r.events) = 1
               /\ \A i \in DOMAIN r.derive :
                      LET entry == <<VariantOf(r.derive[i]), r.derive[i].s3Key>>
                      IN  /\ entry \in r.events[1].outputs
                          /\ entry \in ledger[r.videoId].processedFiles
               /\ \A p \in r.events[1].outputs
                             \cup ledger[r.videoId].processedFiles :
                      p[2] = DestinationKey(r.videoId, p[1])

C26_Witness ==
    \E w \in Workers :
        /\ Over(run[w])
        /\ Fresh(run[w])
        /\ AllSucceeded(run[w])
        /\ resolutions = <<"720p", "480p">>
        /\ Cardinality(ledger[run[w].videoId].processedFiles) = 3
        /\ Cardinality(run[w].stored) = 3

\* C27: in every run that passes the gate, the ledger write setting
\* PROCESSING has completed before the download starts, the download has
\* completed before any derivation task starts, and no upload starts before
\* every derivation task of the run has succeeded.
C27_PipelineOrder ==
    \A w \in Workers :
        LET r == run[w] IN
        /\ r.nDownload > 0 =>
              /\ r.writes # <<>>
              /\ r.writes[1].status = "PROCESSING"
              /\ r.writes[1].ok
        /\ r.pc = "download" => (r.nDerive = 0 /\ r.nUpload = 0)
        /\ r.nDerive > 0 =>
              /\ r.nDownload = 1
              /\ "download" \notin r.failed
              /\ r.pc \notin {"gate", "mkdir", "set_processing", "download"}
        /\ r.pc \in {"probe", "derive"} => r.nUpload = 0
        /\ r.nUpload > 0 =>
              /\ r.nDerive = Len(r.derive)
              /\ \A i \in DOMAIN r.derive : r.derive[i].state = "ok"

C27_Witness ==
    \E w \in Workers :
        /\ run[w].pc = "upload"
        /\ run[w].nUpload = 3
        /\ run[w].nDownload = 1
        /\ \E i \in DOMAIN run[w].upload : run[w].upload[i].state = "ok"

\* C28: when several tasks of one fan-out group fail in a run (and nothing
\* else of the run fails), one failure event is published and one terminal
\* ledger write is made, and the event carries the error of the task that
\* failed first in time: the first rejection of a group is the error the
\* handler keeps, and a later rejection of a sibling changes neither that
\* error, nor the events published, nor the ledger writes made, nor the
\* handler's position.
NewlyFailed(before, after) ==
    {i \in DOMAIN before :
        /\ i \in DOMAIN after
        /\ before[i].state = "run"
        /\ after[i].state = "failed"}

SiblingFailureIsIgnored(r, q) ==
    /\ q.processingError = r.processingError
    /\ q.events = r.events
    /\ q.writes = r.writes
    /\ q.pc = r.pc
    /\ q.dbUpdateData = r.dbUpdateData

OneFailureEventForGroup(r, stage, group) ==
    (/\ Over(r)
     /\ Cardinality(FailedTasks(group)) > 1
     /\ r.failed \subseteq {stage, "probe", "publish"}) =>
        /\ Len(r.events) = 1
        /\ r.events[1].routingKey = VIDEO_PROCESSING_FAILED_ROUTING_KEY
        /\ r.events[1].message = r.processingError
        /\ r.processingError.stage = stage
        /\ WriteStatuses(r) = <<"PROCESSING", "ERROR">>
        /\ r.ret = "false"

C28_FirstFailureWins ==
    [][\A w \in Workers :
            /\ OneFailureEventForGroup(run'[w], "derive", run'[w].derive)
            /\ OneFailureEventForGroup(run'[w], "upload", run'[w].upload)
            /\ \A i \in NewlyFailed(run[w].derive, run'[w].derive) :
                  IF FailedTasks(run[w].derive) = {}
                  THEN run'[w].processingError = Err("derive", i)
                  ELSE SiblingFailureIsIgnored(run[w], run'[w])
            /\ \A i \in NewlyFailed(run[w].upload, run'[w].upload) :
                  IF FailedTasks(run[w].upload) = {}
                  THEN run'[w].processingError = Err("upload", i)
                  ELSE SiblingFailureIsIgnored(run[w], run'[w])]_vars

C28_Witness ==
    \E w \in Workers :
        /\ Over(run[w])
        /\ run[w].failed = {"derive"}
        /\ Cardinality(FailedTasks(run[w].derive)) > 1
        /\ Len(run[w].events) = 1
        /\ run[w].events[1].message = Err("derive", 2)
        /\ run[w].derive[1].state = "failed"

\* C29: with two workers handling deliveries of the same video id, the gate
\* read claims nothing (the step in which a run's gate read returns leaves
\* the ledger as it was), and every run whose gate read returned a
\* pre-processing status executes the whole pipeline whatever the other
\* worker did meanwhile: one download, every derivation, every upload, the
\* writes PROCESSING then READY and one completion event.  The witness is
\* the interleaving in which both workers' runs did so for the same id.
RanWholePipeline(r) ==
    /\ r.nDownload = 1
    /\ r.nDerive = Len(resolutions) + 1
    /\ r.nUpload = Len(resolutions) + 1
    /\ WriteStatuses(r) = <<"PROCESSING", "READY">>
    /\ WritesOk(r)
    /\ Len(r.events) = 1
    /\ r.events[1].routingKey = VIDEO_PROCESSING_COMPLETED_ROUTING_KEY

C29_BothRunsPassTheGate ==
    [][\A w \in Workers :
        /\ (run[w].pc = "gate" /\ run'[w].pc # "gate") => ledger' = ledger
        /\ (Over(run'[w]) /\ Fresh(run'[w]) /\ AllSucceeded(run'[w])) =>
              RanWholePipeline(run'[w])]_vars

C29_Witness ==
    /\ \A w \in Workers :
          /\ Over(run[w])
          /\ Fresh(run[w])
          /\ AllSucceeded(run[w])
          /\ RanWholePipeline(run[w])
          /\ run[w].events[1].accepted
    /\ \A w, u \in Workers : run[w].videoId = run[u].videoId
    /\ Cardinality({w \in Workers : run[w].pc = "done"}) = 2

\* C30: the workspace directory of a video id is created and removed only by
\* a run that passed the gate for that id: a run that exits at the gate
\* (duplicate delivery, missing record) issues neither mkdir nor rm, and
\* every step in which the directory ceases to exist is the return of the rm
\* of a run that passed the gate.
PassedGate(r) ==
    /\ r.gate \in videoStatuses
    /\ ~GateSkips(r.gate)

C30_WorkspaceOwnedByGatedRun ==
    [][/\ \A w \in Workers :
            (run'[w].nRm > 0 \/ run'[w].nMkdir > 0) => PassedGate(run'[w])
       /\ \A v \in VideoIds :
            (exists[v] /\ ~exists'[v]) =>
                \E w \in Workers :
                    /\ run[w].pc = "cleanup"
                    /\ run'[w].pc = "done"
                    /\ run[w].videoId = v
                    /\ PassedGate(run[w])]_vars

\* C31: handleVideoUploadEvent never throws: for every payload and every
\* combination of collaborator failures, an invocation that is over has
\* resolved to a boolean.
C31_HandlerResolvesToBoolean ==
    \A w \in Workers : Over(run[w]) => run[w].ret \in {"true", "false"}

\* C32: the handler returns true only when the gate read found PROCESSING,
\* READY or ERROR, or when the download, every one of the N+1 derivation
\* tasks and every one of the N+1 uploads of the run succeeded; in every
\* other case it returns false.
FoundDuplicate(r) == r.gate \in {"PROCESSING", "READY", "ERROR"}

PipelineSucceeded(r) ==
    /\ r.nDownload = 1
    /\ "download" \notin r.failed
    /\ Len(r.derive) = Len(resolutions) + 1
    /\ \A i \in DOMAIN r.derive : r.derive[i].state = "ok"
    /\ Len(r.upload) = Len(resolutions) + 1
    /\ \A i \in DOMAIN r.upload :
          /\ r.upload[i].state = "ok"
          /\ r.upload[i].s3Key \in r.stored

C32_TrueOnlyForDuplicateOrSuccess ==
    \A w \in Workers :
        Over(run[w]) =>
            /\ run[w].ret = "true" =>
                  (FoundDuplicate(run[w]) \/ PipelineSucceeded(run[w]))
            /\ ~(FoundDuplicate(run[w]) \/ PipelineSucceeded(run[w])) =>
                  run[w].ret = "false"

\* C33: a completion event is published only after the same run's ledger
\* write setting READY has succeeded, and its outputs are the mapping of
\* that write; a failure event of a run that passed the gate is published
\* only after that run's ledger write setting ERROR has succeeded.
LastWrite(r) == r.writes[Len(r.writes)]

EventFollowsItsWrite(r, e) ==
    /\ e.routingKey = VIDEO_PROCESSING_COMPLETED_ROUTING_KEY =>
          /\ r.writes # <<>>
          /\ LastWrite(r).status = "READY"
          /\ LastWrite(r).ok
          /\ e.outputs = LastWrite(r).processedFiles
    /\ (e.routingKey = VIDEO_PROCESSING_FAILED_ROUTING_KEY /\ PassedGate(r)) =>
          /\ r.writes # <<>>
          /\ LastWrite(r).status = "ERROR"
          /\ LastWrite(r).ok

C34_GateReadFailureWritesNothing ==
    \A w \in Workers :
        run[w].gate = "read_failed" =>
            /\ run[w].nMkdir = 0
            /\ run[w].nDownload = 0
            /\ run[w].nDerive = 0
            /\ run[w].nUpload = 0
            /\ run[w].pc # "final_write"
            /\ run[w].writes = <<>>
            /\ Over(run[w]) => run[w].ret = "false"

\* C35: a payload lacking one of the fields the handler requires makes the
\* handler return false without a ledger read or write, without creating or
\* removing a workspace, without a storage or engine call and without an
\* event; a payload with all fields of the consumer's VideoUploadPayload
\* (videoId, s3Key, originalFilename, mimeType) is not rejected by that
\* check: the invocation goes on to the ledger read.
HasVideoUploadPayloadFields(body) ==
    /\ body.json
    /\ IsString(body.videoId) /\ Truthy(body.videoId)
    /\ IsString(body.s3Key) /\ Truthy(body.s3Key)
    /\ IsString(body.originalFilename) /\ Truthy(body.originalFilename)
    /\ IsString(body.mimeType) /\ Truthy(body.mimeType)

RejectedOnEntry(r) ==
    /\ Over(r)
    /\ r.ret = "false"
    /\ r.gate = "none"
    /\ r.writes = <<>>
    /\ r.events = <<>>
    /\ r.nMkdir = 0 /\ r.nRm = 0
    /\ r.nDownload = 0 /\ r.nDerive = 0 /\ r.nUpload = 0

C35_RequiredFieldCheck ==
    \A w \in Workers :
        dlv[w].invoked = 1 =>
            /\ ~PayloadHasRequiredFields(dlv[w].body) => RejectedOnEntry(run[w])
            /\ HasVideoUploadPayloadFields(dlv[w].body) =>
                  ~RejectedOnEntry(run[w])

\* C36: a failure of the metadata probe after a successful download is not
\* fatal.  The step in which the probe returns launches the derivation
\* group whatever its outcome; the verdict, the terminal status and the kind
\* of event of a run that got past the probe are decided by its derivation
\* tasks and uploads alone; and a run in which only the probe failed
\* returns true, writes READY with metadata null and publishes a completion
\* event.
FanOutResolved(r) ==
    /\ \A i \in DOMAIN r.derive : r.derive[i].state = "ok"
    /\ r.upload # <<>>
    /\ \A i \in DOMAIN r.upload : r.upload[i].state \in {"ok", "skipped"}

OutcomeDecidedByFanOut(r) ==
    LET won == FanOutResolved(r) IN
    /\ r.ret = IF won THEN "true" ELSE "false"
    /\ LastWrite(r).status = IF won THEN "READY" ELSE "ERROR"
    /\ \A i \in DOMAIN r.events :
          r.events[i].routingKey =
              IF won THEN VIDEO_PROCESSING_COMPLETED_ROUTING_KEY
              ELSE VIDEO_PROCESSING_FAILED_ROUTING_KEY

C36_ProbeFailureIsNotFatal ==
    [][\A w \in Workers :
        /\ (run[w].pc = "probe" /\ run'[w].pc # "probe") =>
              /\ run'[w].pc = "derive"
              /\ run'[w].nDerive = Len(resolutions) + 1
              /\ run'[w].processingError = NoError
              /\ run'[w].dbUpdateData.metadata \in {"probed", "null"}
        /\ (Over(run'[w]) /\ run'[w].nDerive > 0) =>
              OutcomeDecidedByFanOut(run'[w])
        /\ (Over(run'[w]) /\ run'[w].failed = {"probe"}) =>
              /\ run'[w].ret = "true"
              /\ WriteStatuses(run'[w]) = <<"PROCESSING", "READY">>
              /\ ledger'[run'[w].videoId].metadata = "null"
              /\ Len(run'[w].events) = 1
              /\ run'[w].events[1].routingKey =
                     VIDEO_PROCESSING_COMPLETED_ROUTING_KEY]_vars

C36_Witness ==
    \E w \in Workers :
        /\ Over(run[w])
        /\ run[w].failed = {"probe"}
        /\ run[w].ret = "true"
        /\ run[w].nUpload = Len(resolutions) + 1
        /\ ledger[run[w].videoId].status = "READY"
        /\ ledger[run[w].videoId].metadata = "null"

\* C37: the output mapping of every terminal ledger write (READY or ERROR)
\* holds only keys whose upload has completed successfully in that run: at
\* the step in which the write is made, every key of its mapping is the key
\* of an object the run has stored; in particular the key of a failed upload
\* is not recorded.
KeysOf(mapping) == {entry[2] : entry \in mapping}

C37_OnlyStoredKeysRecorded ==
    [][\A w \in Workers :
        (/\ Len(run'[w].writes) = Len(run[w].writes) + 1
         /\ run'[w].writes[Len(run'[w].writes)].status \in {"READY", "ERROR"}) =>
            KeysOf(run'[w].writes[Len(run'[w].writes)].processedFiles)
                \subseteq run[w].stored]_vars

\* C38: if every collaborator call eventually returns or fails, every message
\* delivered to a started consumer is eventually settled, exactly once, by
\* an ack or by a nack without requeue.
SettledOnce(d) ==
    /\ d.state = "settled"
    /\ d.acks + d.nacks = 1
    /\ d.requeues = 0

C38_EveryDeliveryIsSettled ==
    \A w \in Workers : (dlv[w].state = "processing") ~> SettledOnce(dlv[w])

C38_Witness ==
    \E w \in Workers :
        /\ SettledOnce(dlv[w])
        /\ dlv[w].nacks = 1
        /\ run[w].nUpload > 0
        /\ Over(run[w])

\* C39: a consumer registers at most one message callback over its lifetime:
\* a call of start() made while the consumer is running, or while an earlier
\* call of start() is still in progress, registers no second callback.
C39_AtMostOneCallback ==
    \A w \in Workers : consumer[w].callbacks <= 1

\* C40: publishVideoEvent never throws and returns a boolean: true exactly
\* when the channel's publish call buffered the message, false when there is
\* no channel, when publishing raised an error and when the channel did not
\* accept the message.  In the step in which a publish returns, the handler
\* is given that boolean and goes on to the removal of the workspace with
\* the error it had caught, if any, unchanged.
C40_PublishReturnsBoolean ==
    [][\A w \in Workers :
        Len(run'[w].events) > Len(run[w].events) =>
            LET e == run'[w].events[Len(run'[w].events)] IN
            /\ e.accepted \in BOOLEAN
            /\ e.accepted <=> ("publish" \notin run'[w].failed)
            /\ run'[w].pc = "cleanup"
            /\ run'[w].processingError = run[w].processingError
            /\ run'[w].writes = run[w].writes]_vars

C40_Witness ==
    \E w \in Workers :
        /\ Over(run[w])
        /\ Len(run[w].events) = 1
        /\ run[w].events[1].routingKey = VIDEO_PROCESSING_FAILED_ROUTING_KEY
        /\ ~run[w].events[1].accepted
        /\ "publish" \in run[w].failed
        /\ run[w].ret = "false"
        /\ run[w].nRm = 1

====
